---------------------------- MODULE Spec2Model ----------------------------
(***************************************************************************)
(* Fritter personas and follows: the persona registry, the follow graph,   *)
(* the active-persona session binding and the delete cascades, modelled    *)
(* from the Express routers, middleware and Mongoose collections.          *)
(*                                                                         *)
(* A request is a chain of middleware followed by a handler.  Every        *)
(* middleware or handler that awaits the document store is one atomic      *)
(* step; a synchronous validator runs in the step of the middleware next   *)
(* to it.  Spec serves one request at a time, from its first middleware to *)
(* its response.  PersonaRaceSpec and FollowRaceSpec add overlapping       *)
(* requests: one request may be suspended between two of its steps while   *)
(* other requests are served.                                              *)
(***************************************************************************)
EXTENDS Integers, Sequences, FiniteSets, TLC

VARIABLES personas, nextPid, follows, session, inflight

vars == <<personas, nextPid, follows, session, inflight>>

(***************************************************************************)
(* Bounds and input sets                                                   *)
(***************************************************************************)
\* persona ids ever assigned (ObjectIds are never reused)
MaxPersonas == 2
\* Follow documents stored at one time
MaxFollows == 2

None == "none"
\* an unset persona id (a session without active persona, a request without
\* personaId): falsy in the middleware's tests
NoId == 0

Users == {"u1", "u2"}
Sessions == {"s1", "s2"}

\* the accounts the sessions logged in with before the first request: the
\* two sessions of one account, or one session of each account
SessionAccounts == {[s \in Sessions |-> IF s = "s1" THEN "u1" ELSE u] : u \in Users}

\* strings are sequences of characters
WordChars == {"a", "A", "l", "_", "1", "u", "n", "d", "e", "f", "i"}
\* a field that the request does not carry
Undefined == <<"undefined">>
HandleInputs == {<<"a">>, <<"A">>, <<"a", " ">>, Undefined}
NameInputs == {<<"A", "l">>, <<"A">>}
\* the names of update requests: those, and a second valid name
NewNameInputs == NameInputs \cup {<<"l", " ", "A">>}
PidInputs == 0..MaxPersonas

(***************************************************************************)
(* Format validators (persona middleware)                                  *)
(***************************************************************************)
\* \w
IsWordChar(c) == c \in WordChars

\* \w+ on s[i..j]
WordRun(s, i, j) == i <= j /\ \A m \in i..j : IsWordChar(s[m])

\* s[i..] matches exactly n repetitions of ([ ]?\w+), up to the end of s
RECURSIVE NameGroups(_, _, _)
NameGroups(s, i, n) ==
    \E j \in i..Len(s) :
        /\ \/ WordRun(s, i, j)
           \/ s[i] = " " /\ WordRun(s, i + 1, j)
        /\ IF n = 1 THEN j = Len(s) ELSE NameGroups(s, j + 1, n - 1)

\* /^\w+(([ ]?\w+){1,5})$/i
NameRegexTest(s) ==
    \E j \in 1..Len(s) :
        WordRun(s, 1, j) /\ \E n \in 1..5 : NameGroups(s, j + 1, n)

\* RegExp.prototype.test converts its argument to a string
StringOf(v) ==
    IF v = Undefined THEN <<"u", "n", "d", "e", "f", "i", "n", "e", "d">> ELSE v

\* /^\w+$/i
HandleRegexTest(s) == WordRun(StringOf(s), 1, Len(StringOf(s)))

(***************************************************************************)
(* Pattern lookups (persona collection)                                    *)
(***************************************************************************)
RECURSIVE TrimLeft(_)
TrimLeft(s) == IF s # <<>> /\ Head(s) = " " THEN TrimLeft(Tail(s)) ELSE s

RECURSIVE TrimRight(_)
TrimRight(s) ==
    IF s # <<>> /\ s[Len(s)] = " " THEN TrimRight(SubSeq(s, 1, Len(s) - 1)) ELSE s

\* String.prototype.trim
Trim(s) == TrimRight(TrimLeft(s))

\* a match that ignores letter case (the i flag)
AnchoredMatch_IgnoreCase(pat, str) ==
    LET Fold(c) == IF c = "A" THEN "a" ELSE c
    IN  /\ Len(pat) = Len(str)
        /\ \A i \in 1..Len(pat) : pat[i] = "." \/ Fold(pat[i]) = Fold(str[i])

\* new RegExp(`^${pat}$`) tested against str: every character of the pattern
\* stands for itself, except the dot, which stands for any one character
AnchoredMatch(pat, str) ==
    /\ Len(pat) = Len(str)
    /\ \A i \in 1..Len(pat) : pat[i] = "." \/ pat[i] = str[i]


\* findOne returns one of the documents that satisfy the filter; the model
\* keeps the whole set of satisfying ids and the caller picks one of them

\* PersonaModel.findOne({_id: personaId})
PersonaCollection_findOneByPersonaId(db, personaId) ==
    {i \in DOMAIN db.personas : i = personaId}

\* PersonaModel.findOne({handle: new RegExp(`^${handle.trim()}$`)})
PersonaCollection_findOneByHandle(db, handle) ==
    {i \in DOMAIN db.personas : AnchoredMatch(Trim(handle), db.personas[i].handle)}

\* PersonaModel.findOne({user: /^username$/, handle: /^handle$/}); account
\* names are atoms of the model, matched by equality
PersonaCollection_findOneByUserAndHandle(db, username, handle) ==
    {i \in DOMAIN db.personas :
        /\ db.personas[i].user = username
        /\ AnchoredMatch(Trim(handle), db.personas[i].handle)}

\* PersonaModel.find({user: /^username$/})
PersonaCollection_findAllByUsername(db, username) ==
    {i \in DOMAIN db.personas : db.personas[i].user = username}

\* new PersonaModel({user, handle, name}).save(): a fresh _id
PersonaCollection_addOne(db, username, handle, name) ==
    [db EXCEPT
        !.personas = [i \in DOMAIN db.personas \cup {db.nextPid} |->
                         IF i = db.nextPid
                         THEN [user |-> username, handle |-> handle, name |-> name]
                         ELSE db.personas[i]],
        !.nextPid = db.nextPid + 1]

\* an update that stores the changed persona as a new document
PersonaCollection_updateOne_Reinsert(db, personaId, name, handle) ==
    [db EXCEPT
        !.personas =
            [i \in (DOMAIN db.personas \ {personaId}) \cup {db.nextPid} |->
                IF i = db.nextPid
                THEN [user |-> db.personas[personaId].user,
                      handle |-> IF handle # <<>> THEN handle
                                 ELSE db.personas[personaId].handle,
                      name |-> IF name # <<>> THEN name
                               ELSE db.personas[personaId].name]
                ELSE db.personas[i]],
        !.nextPid = db.nextPid + 1]

\* persona.name / persona.handle are assigned when the detail is truthy, then save()
PersonaCollection_updateOne(db, personaId, name, handle) ==
    [db EXCEPT
        !.personas[personaId].name = IF name # <<>> THEN name ELSE @,
        !.personas[personaId].handle = IF handle # <<>> THEN handle ELSE @]

\* the value null, which is no result object
Null == [null |-> TRUE]

\* what PersonaModel.deleteOne({_id: personaId}) resolves to: a result
\* object with the number of documents deleted, whether or not one matched
PersonaModel_deleteOneResult(db, personaId) ==
    [acknowledged |-> TRUE,
     deletedCount |-> IF personaId \in DOMAIN db.personas THEN 1 ELSE 0]

\* the return value of PersonaCollection.deleteOne: persona !== null
PersonaCollection_deleteOneReturns(db, personaId) ==
    PersonaModel_deleteOneResult(db, personaId) # Null

\* PersonaModel.deleteOne({_id: personaId})
PersonaCollection_deleteOne(db, personaId) ==
    [db EXCEPT !.personas = [i \in DOMAIN db.personas \ {personaId} |-> db.personas[i]]]

\* PersonaModel.deleteMany({user: username})
PersonaCollection_deleteMany(db, username) ==
    [db EXCEPT !.personas =
        [i \in {j \in DOMAIN db.personas : db.personas[j].user # username} |->
            db.personas[i]]]

(***************************************************************************)
(* Follow collection: the Follow documents in insertion order, which is    *)
(* the order of their dateFollowed                                         *)
(***************************************************************************)
RECURSIVE SelectIdx(_, _, _)
\* the subsequence of fs at the positions in keep, from position i on
SelectIdx(fs, keep, i) ==
    IF i > Len(fs) THEN <<>>
    ELSE (IF i \in keep THEN <<fs[i]>> ELSE <<>>) \o SelectIdx(fs, keep, i + 1)

\* new FollowModel({followerId, followingId, dateFollowed: new Date()}).save()
FollowCollection_addOne(db, followerId, followingId) ==
    [db EXCEPT !.follows =
        Append(@, [followerId |-> followerId, followingId |-> followingId])]

\* a lookup that takes the pair in either direction
FollowCollection_findOneByPartyIds_Unordered(db, followerId, followingId) ==
    {i \in 1..Len(db.follows) :
        \/ /\ db.follows[i].followerId = followerId
           /\ db.follows[i].followingId = followingId
        \/ /\ db.follows[i].followerId = followingId
           /\ db.follows[i].followingId = followerId}

\* FollowModel.findOne({followerId, followingId}): the positions that satisfy
\* the filter.  An undefined followingId is sent as null, which no stored
\* Follow has (the schema requires the field)
FollowCollection_findOneByPartyIds(db, followerId, followingId) ==
    {i \in 1..Len(db.follows) :
        /\ db.follows[i].followerId = followerId
        /\ db.follows[i].followingId = followingId}

\* FollowModel.find({followerId: personaId}), no sort: the documents come in
\* their natural order, the order of insertion
FollowCollection_findAllInitiatedById(db, personaId) ==
    SelectIdx(db.follows,
              {i \in 1..Len(db.follows) : db.follows[i].followerId = personaId}, 1)

\* a find that filters on the wrong field
FollowCollection_findAllReceivedById_ByFollower(db, personaId) ==
    SelectIdx(db.follows,
              {i \in 1..Len(db.follows) : db.follows[i].followerId = personaId}, 1)

\* FollowModel.find({followingId: personaId}), no sort
FollowCollection_findAllReceivedById(db, personaId) ==
    SelectIdx(db.follows,
              {i \in 1..Len(db.follows) : db.follows[i].followingId = personaId}, 1)

\* the Follow documents of the collection, each with its _id: at any one
\* instant a document's position in the collection stands for its _id
FollowDocs(fs) == [k \in 1..Len(fs) |-> [id |-> k, doc |-> fs[k]]]

\* a deleteOne that removes the document at the position followId
FollowModel_deleteOne_ByPosition(docs, followId) ==
    IF followId \notin 1..Len(docs) THEN docs
    ELSE SubSeq(docs, 1, followId - 1) \o SubSeq(docs, followId + 1, Len(docs))

\* FollowModel.deleteOne({_id: followId}): removes the first document whose
\* _id is followId, if there is one
FollowModel_deleteOne(docs, followId) ==
    LET hits == {k \in 1..Len(docs) : docs[k].id = followId}
    IN  IF hits = {} THEN docs
        ELSE LET m == CHOOSE k \in hits : \A j \in hits : k <= j
             IN  SubSeq(docs, 1, m - 1) \o SubSeq(docs, m + 1, Len(docs))

\* what FollowModel.deleteOne({_id: followId}) resolves to
FollowModel_deleteOneResult(docs, followId) ==
    [acknowledged |-> TRUE,
     deletedCount |-> Len(docs) - Len(FollowModel_deleteOne(docs, followId))]

\* the return value of FollowCollection.deleteOne: follow !== null
FollowCollection_deleteOneReturns(db, followId) ==
    FollowModel_deleteOneResult(FollowDocs(db.follows), followId) # Null

\* FollowCollection.deleteOne(followId)
FollowCollection_deleteOne(db, followId) ==
    LET kept == FollowModel_deleteOne(FollowDocs(db.follows), followId)
    IN  [db EXCEPT !.follows = [k \in 1..Len(kept) |-> kept[k].doc]]

\* a batch delete that filters on the wrong field
FollowCollection_deleteMany_ByFollowing(db, personaId) ==
    [db EXCEPT !.follows =
        SelectIdx(@, {i \in 1..Len(@) : @[i].followingId # personaId}, 1)]

\* a batch delete that removes the Follows of either direction
FollowCollection_deleteMany_EitherParty(db, personaId) ==
    [db EXCEPT !.follows =
        SelectIdx(@, {i \in 1..Len(@) : /\ @[i].followerId # personaId
                                        /\ @[i].followingId # personaId}, 1)]

\* FollowModel.deleteMany({followerId: personaId})
FollowCollection_deleteMany(db, personaId) ==
    [db EXCEPT !.follows =
        SelectIdx(@, {i \in 1..Len(@) : @[i].followerId # personaId}, 1)]

\* the cascade's other direction: every Follow whose followingId is personaId
FollowCollection_deleteManyReceived(db, personaId) ==
    [db EXCEPT !.follows =
        SelectIdx(@, {i \in 1..Len(@) : @[i].followingId # personaId}, 1)]


(***************************************************************************)
(* Requests.  db is the store and the sessions; rq is a request: its       *)
(* route (op), the next step of its chain (pc), its session and fields.    *)
(* A middleware yields the status it responds with, or 0 when it calls     *)
(* next().  A step yields the set of its possible outcomes.                *)
(***************************************************************************)
DB == [personas |-> personas, nextPid |-> nextPid, follows |-> follows,
       session |-> session]

Idle == [op |-> "idle", pc |-> "idle", sess |-> None, user |-> None,
         handle |-> <<>>, name |-> <<>>, pid |-> NoId, bpid |-> NoId, status |-> 0,
         following |-> <<>>, followers |-> <<>>, accessed |-> FALSE]

NewRequest(op, s, user, handle, name, pid, bpid) ==
    [op |-> op, pc |-> "A", sess |-> s, user |-> user, handle |-> handle,
     name |-> name, pid |-> pid, bpid |-> bpid, status |-> 0,
     following |-> <<>>, followers |-> <<>>, accessed |-> FALSE]

\* res.status(code).json(...)
Respond(db, rq, code) ==
    [db |-> db, rq |-> [rq EXCEPT !.pc = "done", !.status = code]]

\* res.status(code).json(...) with the Follow lists of the response
RespondWith(db, rq, code, following, followers) ==
    [db |-> db,
     rq |-> [rq EXCEPT !.pc = "done", !.status = code,
                       !.following = following, !.followers = followers]]

Continue(db, rq, pc) == [db |-> db, rq |-> [rq EXCEPT !.pc = pc]]

RECURSIVE FirstRejection(_)
\* the chain stops at the first middleware that responds
FirstRejection(codes) ==
    IF codes = <<>> THEN 0
    ELSE IF Head(codes) # 0 THEN Head(codes) ELSE FirstRejection(Tail(codes))

RECURSIVE ReadsUntilRejection(_, _)
\* whether one of the middleware that ran, up to the first that responds,
\* reads the document store; reads tells it of each middleware of the chain
ReadsUntilRejection(codes, reads) ==
    IF codes = <<>> THEN FALSE
    ELSE \/ Head(reads)
         \/ Head(codes) = 0 /\ ReadsUntilRejection(Tail(codes), Tail(reads))

\* one step of a middleware chain; accessed records that a middleware of the
\* request has read the document store
Chain(db, rq, codes, reads, nextPc) ==
    LET ran == [rq EXCEPT !.accessed = @ \/ ReadsUntilRejection(codes, reads)]
    IN  IF FirstRejection(codes) # 0
        THEN {Respond(db, ran, FirstRejection(codes))}
        ELSE {Continue(db, ran, nextPc)}

\* req.session.userId set
isUserLoggedIn(db, rq) == IF db.session[rq.sess].userId = None THEN 403 ELSE 0

isValidName(db, rq) == IF ~NameRegexTest(rq.name) THEN 400 ELSE 0

isValidHandle(db, rq) == IF ~HandleRegexTest(rq.handle) THEN 400 ELSE 0

\* a uniqueness check that looks only among the personas of the named account
isHandleNotAlreadyInUse_PerAccount(db, rq) ==
    IF PersonaCollection_findOneByUserAndHandle(db, rq.user, rq.handle) # {}
    THEN 409
    ELSE 0

\* handle.trim() in findOneByHandle throws when the handle is undefined (500)
isHandleNotAlreadyInUse(db, rq) ==
    IF rq.handle = Undefined THEN 500
    ELSE IF PersonaCollection_findOneByHandle(db, rq.handle) # {} THEN 409 ELSE 0

\* a uniqueness check that does not exempt the persona's own handle
isNewHandleNotAlreadyInUse_NoSelfExemption(db, rq) ==
    IF PersonaCollection_findOneByPersonaId(db, rq.pid) = {} THEN 500
    ELSE IF PersonaCollection_findOneByHandle(db, rq.handle) # {} THEN 409 ELSE 0

\* personaOriginal.handle throws when the persona is gone, and handle.trim()
\* in findOneByHandle when the handle is undefined (500)
isNewHandleNotAlreadyInUse(db, rq) ==
    IF PersonaCollection_findOneByPersonaId(db, rq.pid) = {} THEN 500
    ELSE IF rq.handle = Undefined THEN 500
    ELSE IF /\ db.personas[rq.pid].handle # rq.handle
            /\ PersonaCollection_findOneByHandle(db, rq.handle) # {}
         THEN 409
         ELSE 0

isPersonaExistWithUser(db, rq) ==
    IF PersonaCollection_findOneByPersonaId(db, rq.pid) = {} THEN 400
    ELSE IF db.personas[rq.pid].user # rq.user THEN 400 ELSE 0

\* an existence check that forgets the account
isPersonaHandleExistWithUser_AnyAccount(db, rq) ==
    IF PersonaCollection_findOneByHandle(db, rq.handle) = {} THEN 404 ELSE 0

\* handle.trim() in findOneByUserAndHandle throws when the handle is
\* undefined (500)
isPersonaHandleExistWithUser(db, rq) ==
    IF rq.handle = Undefined THEN 500
    ELSE IF PersonaCollection_findOneByUserAndHandle(
                db, db.session[rq.sess].userId, rq.handle) = {}
         THEN 404
         ELSE 0

\* the persona named in req.body.personaId
isPersonaExists(db, rq) ==
    IF PersonaCollection_findOneByPersonaId(db, rq.bpid) = {} THEN 404 ELSE 0

\* the persona named in req.query.personaId
isPersonaQueryExists(db, rq) ==
    IF rq.pid = NoId THEN 400
    ELSE IF PersonaCollection_findOneByPersonaId(db, rq.pid) = {} THEN 404 ELSE 0

\* a check that lets every session through
isPersonaSignedIn_Always(db, rq) == 0

isPersonaSignedIn(db, rq) ==
    IF db.session[rq.sess].personaId = NoId THEN 403 ELSE 0

\* a check that also turns away a follow of the active persona itself
isFollowNotExistUnderSignedInPersona_NoSelf(db, rq) ==
    IF \/ db.session[rq.sess].personaId = rq.bpid
       \/ FollowCollection_findOneByPartyIds(
              db, db.session[rq.sess].personaId, rq.bpid) # {}
    THEN 409
    ELSE 0

\* looks the Follow up by req.body.personaId
isFollowNotExistUnderSignedInPersona(db, rq) ==
    IF FollowCollection_findOneByPartyIds(
           db, db.session[rq.sess].personaId, rq.bpid) # {}
    THEN 409
    ELSE 0

\* looks the Follow up by req.body.personaId
isFollowExistUnderSignedInPersona(db, rq) ==
    IF FollowCollection_findOneByPartyIds(
           db, db.session[rq.sess].personaId, rq.bpid) = {}
    THEN 404
    ELSE 0

(***************************************************************************)
(* Handlers                                                                *)
(***************************************************************************)
\* POST /api/persona/session: persona._id throws when no persona matches (500)
PostPersonaSessionHandler(db, rq) ==
    IF PersonaCollection_findOneByHandle(db, rq.handle) = {}
    THEN {Respond(db, rq, 500)}
    ELSE {Respond([db EXCEPT !.session[rq.sess].personaId = p], rq, 200) :
             p \in PersonaCollection_findOneByHandle(db, rq.handle)}

\* POST /api/persona: the owner is req.body.username; the new id is assigned
\* to req.session.personId, which nothing reads, and personaId is left alone
PostPersonaHandler(db, rq) ==
    {Respond(PersonaCollection_addOne(db, rq.user, rq.handle, rq.name), rq, 201)}

\* PUT /api/persona/:personaId: persona.name throws when the persona is gone (500)
PutPersonaHandler(db, rq) ==
    IF PersonaCollection_findOneByPersonaId(db, rq.pid) = {}
    THEN {Respond(db, rq, 500)}
    ELSE {Respond(PersonaCollection_updateOne(db, rq.pid, rq.name, rq.handle), rq, 200)}

\* a delete handler without the active-persona test
DeletePersonaHandler_NoGuard(db, rq) ==
    {Respond(PersonaCollection_deleteOne(db, rq.pid), rq, 200)}

\* DELETE /api/persona?personaId=id
DeletePersonaHandler(db, rq) ==
    IF rq.pid = db.session[rq.sess].personaId
    THEN {Respond(db, rq, 401)}
    ELSE {Respond(PersonaCollection_deleteOne(db, rq.pid), rq, 200)}

\* a follow handler that takes the follower from the request's query
PostFollowHandler_FollowerFromRequest(db, rq) ==
    IF db.session[rq.sess].personaId = NoId THEN {Respond(db, rq, 500)}
    ELSE {Respond(FollowCollection_addOne(
                      db,
                      IF rq.pid # NoId THEN rq.pid ELSE db.session[rq.sess].personaId,
                      rq.bpid),
                  rq, 201)}

\* POST /api/follows: the follower is req.session.personaId ?? '', and ''
\* is no ObjectId, so that save() throws (500)
PostFollowHandler(db, rq) ==
    IF db.session[rq.sess].personaId = NoId THEN {Respond(db, rq, 500)}
    ELSE {Respond(FollowCollection_addOne(db, db.session[rq.sess].personaId, rq.bpid),
                  rq, 201)}

\* an unfollow handler that removes a Follow of any follower
DeleteFollowHandler_AnyFollower(db, rq) ==
    IF {i \in 1..Len(db.follows) : db.follows[i].followingId = rq.pid} = {}
    THEN {Respond(db, rq, 500)}
    ELSE {Respond(FollowCollection_deleteOne(db, i), rq, 200) :
             i \in {j \in 1..Len(db.follows) : db.follows[j].followingId = rq.pid}}

\* DELETE /api/follows?personaId=id: looks the Follow up by req.query.personaId;
\* follow._id throws when there is none (500)
DeleteFollowHandler(db, rq) ==
    IF FollowCollection_findOneByPartyIds(db, db.session[rq.sess].personaId, rq.pid) = {}
    THEN {Respond(db, rq, 500)}
    ELSE {Respond(FollowCollection_deleteOne(db, i), rq, 200) :
             i \in FollowCollection_findOneByPartyIds(
                       db, db.session[rq.sess].personaId, rq.pid)}

\* GET /api/follows/following: the Follows of the active persona, as find
\* returns them
GetFollowingHandler(db, rq) ==
    {RespondWith(db, rq, 200,
         FollowCollection_findAllInitiatedById(db, db.session[rq.sess].personaId),
         <<>>)}

\* GET /api/follows/followers
GetFollowersHandler(db, rq) ==
    {RespondWith(db, rq, 200, <<>>,
         FollowCollection_findAllReceivedById(db, db.session[rq.sess].personaId))}

\* GET /api/follows without personaId in the query: both lists of the active
\* persona; with it, the second chain of the route
GetFollowsOwnHandler(db, rq) ==
    IF rq.pid # NoId THEN {Continue(db, rq, "B")}
    ELSE {RespondWith(db, rq, 200,
              FollowCollection_findAllInitiatedById(db, db.session[rq.sess].personaId),
              FollowCollection_findAllReceivedById(db, db.session[rq.sess].personaId))}

\* GET /api/follows?personaId=id: both lists of the persona of the query
GetFollowsOfHandler(db, rq) ==
    {RespondWith(db, rq, 200,
         FollowCollection_findAllInitiatedById(db, rq.pid),
         FollowCollection_findAllReceivedById(db, rq.pid))}

RECURSIVE CleanupEdges(_, _)
\* the persona-deletion edge cleanup, for each persona of ids
CleanupEdges(db, ids) ==
    IF ids = {} THEN db
    ELSE LET p == CHOOSE x \in ids : TRUE
         IN CleanupEdges(
                FollowCollection_deleteManyReceived(FollowCollection_deleteMany(db, p), p),
                ids \ {p})

\* account deletion, first part: the edge cleanup of every persona of the account
DeleteAccountCleanup(db, rq) ==
    {Continue(CleanupEdges(db, PersonaCollection_findAllByUsername(
                                   db, db.session[rq.sess].userId)),
              rq, "B")}

\* account deletion, second part: the account's personas as a batch; the
\* sessions of the account end with the account
DeleteAccountHandler(db, rq) ==
    {Respond([PersonaCollection_deleteMany(db, db.session[rq.sess].userId)
                 EXCEPT !.session =
                     [s \in DOMAIN @ |->
                         IF @[s].userId = db.session[rq.sess].userId
                         THEN [userId |-> None, personaId |-> NoId]
                         ELSE @[s]]],
             rq, 200)}

(***************************************************************************)
(* The chains, one step at a time                                          *)
(***************************************************************************)
Step(db, rq) ==
    CASE rq.op = "signin" /\ rq.pc = "A" ->
            Chain(db, rq, <<isUserLoggedIn(db, rq), isValidHandle(db, rq),
                            isPersonaHandleExistWithUser(db, rq)>>,
                  <<FALSE, FALSE, TRUE>>, "B")
      [] rq.op = "signin" /\ rq.pc = "B" -> PostPersonaSessionHandler(db, rq)
      [] rq.op = "create" /\ rq.pc = "A" ->
            Chain(db, rq, <<isUserLoggedIn(db, rq), isValidName(db, rq),
                            isValidHandle(db, rq), isHandleNotAlreadyInUse(db, rq)>>,
                  <<FALSE, FALSE, FALSE, TRUE>>, "B")
      [] rq.op = "create" /\ rq.pc = "B" -> PostPersonaHandler(db, rq)
      [] rq.op = "update" /\ rq.pc = "A" ->
            Chain(db, rq, <<isUserLoggedIn(db, rq), isPersonaExistWithUser(db, rq),
                            isValidName(db, rq), isValidHandle(db, rq)>>,
                  <<FALSE, rq.pid # NoId, FALSE, FALSE>>, "B")
      [] rq.op = "update" /\ rq.pc = "B" ->
            Chain(db, rq, <<isNewHandleNotAlreadyInUse(db, rq)>>, <<TRUE>>, "C")
      [] rq.op = "update" /\ rq.pc = "C" -> PutPersonaHandler(db, rq)
      [] rq.op = "delete" /\ rq.pc = "A" ->
            Chain(db, rq, <<isUserLoggedIn(db, rq), isPersonaQueryExists(db, rq)>>,
                  <<FALSE, rq.pid # NoId>>, "B")
      [] rq.op = "delete" /\ rq.pc = "B" -> DeletePersonaHandler(db, rq)
      [] rq.op = "follow" /\ rq.pc = "A" ->
            Chain(db, rq, <<isUserLoggedIn(db, rq), isPersonaSignedIn(db, rq),
                            isPersonaExists(db, rq)>>,
                  <<FALSE, FALSE, rq.bpid # NoId>>, "B")
      [] rq.op = "follow" /\ rq.pc = "B" ->
            Chain(db, rq, <<isFollowNotExistUnderSignedInPersona(db, rq)>>, <<TRUE>>, "C")
      [] rq.op = "follow" /\ rq.pc = "C" -> PostFollowHandler(db, rq)
      [] rq.op = "unfollow" /\ rq.pc = "A" ->
            Chain(db, rq, <<isUserLoggedIn(db, rq), isPersonaSignedIn(db, rq),
                            isPersonaQueryExists(db, rq)>>,
                  <<FALSE, FALSE, rq.pid # NoId>>, "B")
      [] rq.op = "unfollow" /\ rq.pc = "B" ->
            Chain(db, rq, <<isFollowExistUnderSignedInPersona(db, rq)>>, <<TRUE>>, "C")
      [] rq.op = "unfollow" /\ rq.pc = "C" -> DeleteFollowHandler(db, rq)
      [] rq.op = "following" /\ rq.pc = "A" ->
            Chain(db, rq, <<isUserLoggedIn(db, rq), isPersonaSignedIn(db, rq)>>,
                  <<FALSE, FALSE>>, "B")
      [] rq.op = "following" /\ rq.pc = "B" -> GetFollowingHandler(db, rq)
      [] rq.op = "followers" /\ rq.pc = "A" ->
            Chain(db, rq, <<isUserLoggedIn(db, rq), isPersonaSignedIn(db, rq)>>,
                  <<FALSE, FALSE>>, "B")
      [] rq.op = "followers" /\ rq.pc = "B" -> GetFollowersHandler(db, rq)
      [] rq.op = "follows" /\ rq.pc = "A" ->
            IF FirstRejection(<<isUserLoggedIn(db, rq), isPersonaSignedIn(db, rq)>>) # 0
            THEN Chain(db, rq, <<isUserLoggedIn(db, rq), isPersonaSignedIn(db, rq)>>,
                       <<FALSE, FALSE>>, "B")
            ELSE GetFollowsOwnHandler(db, rq)
      [] rq.op = "follows" /\ rq.pc = "B" ->
            Chain(db, rq, <<isUserLoggedIn(db, rq), isPersonaSignedIn(db, rq),
                            isPersonaQueryExists(db, rq)>>,
                  <<FALSE, FALSE, rq.pid # NoId>>, "C")
      [] rq.op = "follows" /\ rq.pc = "C" -> GetFollowsOfHandler(db, rq)
      [] rq.op = "delaccount" /\ rq.pc = "A" ->
            IF isUserLoggedIn(db, rq) # 0
            THEN {Respond(db, rq, isUserLoggedIn(db, rq))}
            ELSE DeleteAccountCleanup(db, rq)
      [] rq.op = "delaccount" /\ rq.pc = "B" -> DeleteAccountHandler(db, rq)
      [] OTHER -> {}

RECURSIVE RunFrom(_)
\* a request served alone: every outcome of its chain, run to the response
RunFrom(o) ==
    IF o.rq.pc = "done" THEN {o}
    ELSE UNION {RunFrom(o2) : o2 \in Step(o.db, o.rq)}

Run(db, rq) == RunFrom([db |-> db, rq |-> rq])

(***************************************************************************)
(* Initial state: an empty store, every session logged in, no active       *)
(* persona, no request suspended                                           *)
(***************************************************************************)
Init ==
    /\ personas = <<>>
    /\ nextPid = 1
    /\ follows = <<>>
    /\ \E account \in SessionAccounts :
           session = [s \in Sessions |-> [userId |-> account[s], personaId |-> NoId]]
    /\ inflight = Idle

\* the store after a step; the bounds keep the explored store finite
Install(db) ==
    /\ db.nextPid <= MaxPersonas + 1
    /\ Len(db.follows) <= MaxFollows
    /\ personas' = db.personas
    /\ nextPid' = db.nextPid
    /\ follows' = db.follows
    /\ session' = db.session

(***************************************************************************)
(* The requests                                                            *)
(***************************************************************************)
SignInRequests ==
    {NewRequest("signin", s, None, h, <<>>, NoId, NoId) :
        s \in Sessions, h \in HandleInputs}

CreateRequests ==
    {NewRequest("create", s, u, h, n, NoId, NoId) :
        s \in Sessions, u \in Users, h \in HandleInputs, n \in NameInputs}

UpdateRequests ==
    {NewRequest("update", s, u, h, n, p, NoId) :
        s \in Sessions, u \in Users, h \in HandleInputs, n \in NewNameInputs,
        p \in PidInputs}

DeleteRequests ==
    {NewRequest("delete", s, None, <<>>, <<>>, p, NoId) :
        s \in Sessions, p \in PidInputs}

FollowRequests ==
    {NewRequest("follow", s, None, <<>>, <<>>, NoId, b) :
        s \in Sessions, b \in PidInputs}

UnfollowRequests ==
    {NewRequest("unfollow", s, None, <<>>, <<>>, p, b) :
        s \in Sessions, p \in PidInputs, b \in PidInputs}

GetFollowingRequests ==
    {NewRequest("following", s, None, <<>>, <<>>, NoId, NoId) : s \in Sessions}

GetFollowersRequests ==
    {NewRequest("followers", s, None, <<>>, <<>>, NoId, NoId) : s \in Sessions}

GetFollowsRequests ==
    {NewRequest("follows", s, None, <<>>, <<>>, p, NoId) :
        s \in Sessions, p \in PidInputs}

DeleteAccountRequests ==
    {NewRequest("delaccount", s, None, <<>>, <<>>, NoId, NoId) : s \in Sessions}

(***************************************************************************)
(* One request at a time                                                   *)
(***************************************************************************)
Serve(rq) ==
    /\ \E o \in Run(DB, rq) : Install(o.db)
    /\ UNCHANGED inflight

SignIn == \E rq \in SignInRequests : Serve(rq)
Create == \E rq \in CreateRequests : Serve(rq)
Update == \E rq \in UpdateRequests : Serve(rq)
DeletePersona == \E rq \in DeleteRequests : Serve(rq)
Follow == \E rq \in FollowRequests : Serve(rq)
Unfollow == \E rq \in UnfollowRequests : Serve(rq)
DeleteAccount == \E rq \in DeleteAccountRequests : Serve(rq)
GetFollowing == \E rq \in GetFollowingRequests : Serve(rq)
GetFollowers == \E rq \in GetFollowersRequests : Serve(rq)
GetFollows == \E rq \in GetFollowsRequests : Serve(rq)

Next ==
    \/ SignIn
    \/ Create
    \/ Update
    \/ DeletePersona
    \/ Follow
    \/ Unfollow
    \/ DeleteAccount
    \/ GetFollowing
    \/ GetFollowers
    \/ GetFollows

Spec == Init /\ [][Next]_vars

(***************************************************************************)
(* Overlapping requests: a request takes its first step and is suspended   *)
(* at its next await; while it is suspended other requests are served;     *)
(* the suspended request takes its next step.  A request that a format     *)
(* validator rejects changes nothing, whenever it is served: those are     *)
(* left to the arrivals.                                                   *)
(***************************************************************************)
Advance(rq) ==
    \E o \in Step(DB, rq) :
        /\ Install(o.db)
        /\ inflight' = IF o.rq.pc = "done" THEN Idle ELSE o.rq

Arrive(rq) == inflight = Idle /\ Advance(rq)

Resume(op) == inflight.op = op /\ Advance(inflight)

SignInArrives == \E rq \in SignInRequests : Arrive(rq)
CreateArrives == \E rq \in CreateRequests : Arrive(rq)
\* names take no part in the overlap: the overlapping updates carry the
\* names of the create requests
UpdateArrives == \E rq \in UpdateRequests : rq.name \in NameInputs /\ Arrive(rq)
DeleteArrives == \E rq \in DeleteRequests : Arrive(rq)
FollowArrives == \E rq \in FollowRequests : Arrive(rq)
UnfollowArrives == \E rq \in UnfollowRequests : Arrive(rq)
DeleteAccountArrives == \E rq \in DeleteAccountRequests : Arrive(rq)

WellFormed(rq) ==
    /\ rq.op \in {"signin", "create", "update"} =>
           HandleRegexTest(rq.handle) /\ rq.handle # Undefined
    /\ rq.op \in {"create", "update"} => NameRegexTest(rq.name)
    /\ rq.op \in {"update", "delete", "unfollow"} => rq.pid # NoId
    /\ rq.op = "follow" => rq.bpid # NoId

Overtake(rq) == inflight # Idle /\ WellFormed(rq) /\ Serve(rq)

SignInOvertakes == \E rq \in SignInRequests : Overtake(rq)
CreateOvertakes == \E rq \in CreateRequests : Overtake(rq)
UpdateOvertakes == \E rq \in UpdateRequests : rq.name \in NameInputs /\ Overtake(rq)
DeleteOvertakes == \E rq \in DeleteRequests : Overtake(rq)
FollowOvertakes == \E rq \in FollowRequests : Overtake(rq)
UnfollowOvertakes == \E rq \in UnfollowRequests : Overtake(rq)
DeleteAccountOvertakes == \E rq \in DeleteAccountRequests : Overtake(rq)

SignInResumes == Resume("signin")
CreateResumes == Resume("create")
UpdateResumes == Resume("update")
DeleteResumes == Resume("delete")
FollowResumes == Resume("follow")
UnfollowResumes == Resume("unfollow")
DeleteAccountResumes == Resume("delaccount")

\* overlapping requests against the persona registry
PersonaRaceNext ==
    \/ SignInArrives
    \/ CreateArrives
    \/ UpdateArrives
    \/ DeleteArrives
    \/ DeleteAccountArrives
    \/ SignInOvertakes
    \/ CreateOvertakes
    \/ UpdateOvertakes
    \/ DeleteOvertakes
    \/ DeleteAccountOvertakes
    \/ SignInResumes
    \/ CreateResumes
    \/ UpdateResumes
    \/ DeleteResumes
    \/ DeleteAccountResumes

PersonaRaceSpec == Init /\ [][PersonaRaceNext]_vars

\* overlapping requests against the follow graph; personas are created and
\* accounts deleted between the steps of the overlapping requests
FollowRaceNext ==
    \/ Create
    \/ DeleteAccount
    \/ SignInArrives
    \/ DeleteArrives
    \/ FollowArrives
    \/ UnfollowArrives
    \/ SignInOvertakes
    \/ DeleteOvertakes
    \/ FollowOvertakes
    \/ UnfollowOvertakes
    \/ SignInResumes
    \/ DeleteResumes
    \/ FollowResumes
    \/ UnfollowResumes

FollowRaceSpec == Init /\ [][FollowRaceNext]_vars

(***************************************************************************)
(* Properties.  A property of a request is stated over every state the     *)
(* program reaches and every outcome the request has when it is served     *)
(* from that state.                                                        *)
(***************************************************************************)
HandleHeld(h) == \E i \in DOMAIN personas : personas[i].handle = h

\* C1: served alone, a create request from a logged-in session, with a valid
\* name and a handle equal to the handle of an existing persona of any
\* account, is answered 409, and no create request with such a handle adds
\* or changes a persona.
C1_DuplicateHandleRejected ==
    \A rq \in CreateRequests :
        HandleHeld(rq.handle) =>
            \A o \in Run(DB, rq) :
                /\ o.db.personas = personas
                /\ isUserLoggedIn(DB, rq) = 0 /\ isValidName(DB, rq) = 0
                       => o.rq.status = 409

\* a create request for another account's handle is answered 409
C1_Witness ==
    \E rq \in CreateRequests :
        /\ \E i \in DOMAIN personas :
               personas[i].handle = rq.handle /\ personas[i].user # rq.user
        /\ \E o \in Run(DB, rq) : o.rq.status = 409

\* C2: in every reachable state, overlapping create and update requests
\* included, no two persona records have the same handle.
C2_HandlesUnique ==
    \A i, j \in DOMAIN personas :
        i # j => personas[i].handle # personas[j].handle

HasEdge(fs, a, b) ==
    \E k \in 1..Len(fs) : fs[k].followerId = a /\ fs[k].followingId = b

\* the follow requests of a logged-in session whose active persona is a, for
\* an existing persona b
FollowsBy(a, b) ==
    {rq \in FollowRequests :
        /\ isUserLoggedIn(DB, rq) = 0
        /\ a # NoId
        /\ session[rq.sess].personaId = a
        /\ rq.bpid = b
        /\ b \in DOMAIN personas}

\* C3: once the edge (a, b) is stored, a follow request by active persona a
\* for b is answered 409 and adds no edge, and while (b, a) is not stored a
\* follow request by active persona b for a is answered 201 and appends
\* exactly the edge (b, a).
C3_FollowIsDirected ==
    \A a, b \in PidInputs :
        HasEdge(follows, a, b) =>
            /\ \A rq \in FollowsBy(a, b) : \A o \in Run(DB, rq) :
                   o.rq.status = 409 /\ o.db = DB
            /\ ~HasEdge(follows, b, a) =>
                   \A rq \in FollowsBy(b, a) : \A o \in Run(DB, rq) :
                       /\ o.rq.status = 201
                       /\ o.db.follows =
                              Append(follows, [followerId |-> b, followingId |-> a])

\* (a, b) is stored and (b, a) is not; the second follow of b by a is answered
\* 409 and the follow of a by b is answered 201
C3_Witness ==
    \E a, b \in PidInputs :
        /\ a # b
        /\ HasEdge(follows, a, b)
        /\ ~HasEdge(follows, b, a)
        /\ \E rq \in FollowsBy(a, b) : \E o \in Run(DB, rq) : o.rq.status = 409
        /\ \E rq \in FollowsBy(b, a) : \E o \in Run(DB, rq) : o.rq.status = 201

\* C4: in every reachable state, overlapping follow requests included, at
\* most one Follow record is stored for each ordered pair.
C4_OneFollowPerPair ==
    \A i, j \in 1..Len(follows) : i # j => follows[i] # follows[j]

\* C5: after a persona-delete request for persona p is answered 200, no
\* Follow record has p as follower or as followee.
C5_DeleteRemovesEdges ==
    \A rq \in DeleteRequests : \A o \in Run(DB, rq) :
        o.rq.status = 200 =>
            \A k \in 1..Len(o.db.follows) :
                /\ o.db.follows[k].followerId # rq.pid
                /\ o.db.follows[k].followingId # rq.pid

\* the delete requests of a logged-in session that name its active persona
DeletesOfActive ==
    {rq \in DeleteRequests :
        /\ isUserLoggedIn(DB, rq) = 0
        /\ rq.pid # NoId
        /\ rq.pid = session[rq.sess].personaId}

\* C6, as claimed: a persona-delete request that names the session's active
\* persona is answered 401 and changes no persona, Follow or session.
C6_ActiveDeleteForbidden ==
    \A rq \in DeletesOfActive : \A o \in Run(DB, rq) :
        o.rq.status = 401 /\ o.db = DB

\* C6, amended: a persona-delete request that names the session's active
\* persona changes no persona, Follow or session; it is answered 401 while
\* that persona exists and 404 once that persona has been deleted.
C6_ActiveDeleteRejected ==
    \A rq \in DeletesOfActive : \A o \in Run(DB, rq) :
        /\ o.db = DB
        /\ o.rq.status = IF rq.pid \in DOMAIN personas THEN 401 ELSE 404

\* both answers occur: a session deletes its existing active persona, and a
\* session deletes an active persona that another request has deleted
C6_Witness ==
    /\ \E rq \in DeletesOfActive :
           rq.pid \in DOMAIN personas /\ \E o \in Run(DB, rq) : o.rq.status = 401
    /\ \E rq \in DeletesOfActive :
           rq.pid \notin DOMAIN personas /\ \E o \in Run(DB, rq) : o.rq.status = 404

\* C7: when the session's active persona a has an edge to an existing
\* persona b, an unfollow request with b in the query is answered 200 and
\* afterwards no edge (a, b) is stored, so that the following of a lists none.
C7_UnfollowByQuery ==
    \A rq \in UnfollowRequests :
        LET a == session[rq.sess].personaId
        IN  /\ isUserLoggedIn(DB, rq) = 0
            /\ a # NoId
            /\ rq.pid \in DOMAIN personas
            /\ HasEdge(follows, a, rq.pid)
            => \A o \in Run(DB, rq) :
                   /\ o.rq.status = 200
                   /\ FollowCollection_findOneByPartyIds(o.db, a, rq.pid) = {}
                   /\ \A k \in 1..Len(FollowCollection_findAllInitiatedById(o.db, a)) :
                          FollowCollection_findAllInitiatedById(o.db, a)[k].followingId
                              # rq.pid

\* the personas of the account logged in on the session of rq
OwnPersonas(rq) ==
    PersonaCollection_findAllByUsername(DB, session[rq.sess].userId)

OwnedWithHandle(rq) ==
    {i \in DOMAIN personas :
        /\ personas[i].user = session[rq.sess].userId
        /\ personas[i].handle = rq.handle}

\* C9: served alone, a persona sign-in request is answered 200 only when the
\* account logged in on its session owns a persona with its handle, and then
\* the session's active persona is that persona and nothing else changes;
\* from a logged-in session, with a valid handle in the request that the
\* account owns no persona of, including a handle of another account's
\* persona, it is answered 404; every answer other than 200 changes nothing.
C9_SignInChecksOwner ==
    \A rq \in SignInRequests : \A o \in Run(DB, rq) :
        /\ o.rq.status = 200 =>
               /\ o.db.session[rq.sess].personaId \in OwnedWithHandle(rq)
               /\ o.db = [DB EXCEPT !.session[rq.sess].personaId =
                                         o.db.session[rq.sess].personaId]
        /\ o.rq.status # 200 => o.db = DB
        /\ /\ isUserLoggedIn(DB, rq) = 0
           /\ rq.handle # Undefined
           /\ isValidHandle(DB, rq) = 0
           /\ OwnedWithHandle(rq) = {}
           => o.rq.status = 404
        /\ OwnedWithHandle(rq) # {} => o.rq.status = 200

\* a session with an active persona signs in with the handle of another
\* account's persona and is answered 404, and a session without active
\* persona signs in with the handle of an own persona and is answered 200
C9_Witness ==
    /\ \E rq \in SignInRequests :
           /\ HandleHeld(rq.handle)
           /\ OwnedWithHandle(rq) = {}
           /\ session[rq.sess].personaId # NoId
           /\ \E o \in Run(DB, rq) : o.rq.status = 404
    /\ \E rq \in SignInRequests : \E o \in Run(DB, rq) :
           /\ o.rq.status = 200
           /\ session[rq.sess].personaId = NoId
           /\ o.db.session[rq.sess].personaId \in OwnedWithHandle(rq)

\* C10: in every reachable state, overlapping requests included, the active
\* persona of a session, while it exists, is owned by the account logged in
\* on that session.
C10_ActivePersonaOwned ==
    \A s \in Sessions :
        session[s].personaId \in DOMAIN personas =>
            personas[session[s].personaId].user = session[s].userId

\* the requests of the routes that act as the session's active persona
ActivePersonaRequests ==
    FollowRequests \cup UnfollowRequests \cup GetFollowingRequests
        \cup GetFollowersRequests \cup GetFollowsRequests

\* the session of rq is logged in and its active persona has been deleted
StaleBinding(rq) ==
    /\ isUserLoggedIn(DB, rq) = 0
    /\ session[rq.sess].personaId # NoId
    /\ session[rq.sess].personaId \notin DOMAIN personas

\* C11: once the active persona of a session has been deleted, every follow,
\* unfollow and follow-listing request of that session is answered with a
\* failure and changes nothing.
C11_StaleBindingFails ==
    \A rq \in ActivePersonaRequests :
        StaleBinding(rq) =>
            \A o \in Run(DB, rq) : o.rq.status \notin {200, 201} /\ o.db = DB

\* C12: whenever a follow request is about to insert its Follow record,
\* after any requests served since its checks, the record it inserts names
\* an existing follower and an existing followee.
C12_FollowPartiesExist ==
    inflight.op = "follow" /\ inflight.pc = "C" =>
        \A o \in Step(DB, inflight) :
            Len(o.db.follows) > Len(follows) =>
                /\ o.db.follows[Len(o.db.follows)].followerId \in DOMAIN personas
                /\ o.db.follows[Len(o.db.follows)].followingId \in DOMAIN personas

\* the update requests that pass the login, ownership and format checks
CheckedUpdates ==
    {rq \in UpdateRequests :
        /\ isUserLoggedIn(DB, rq) = 0
        /\ isPersonaExistWithUser(DB, rq) = 0
        /\ isValidName(DB, rq) = 0
        /\ isValidHandle(DB, rq) = 0}

HeldByAnother(rq) ==
    \E j \in DOMAIN personas \ {rq.pid} : personas[j].handle = rq.handle

\* C13: served alone, an update request that passes the login, ownership and
\* format checks and changes the handle of persona p to the handle of
\* another persona is answered 409 and changes nothing, and one that keeps
\* the handle of p is answered 200 and sets the name of p, whatever other
\* personas exist.
C13_UpdateHandleConflict ==
    \A rq \in CheckedUpdates : \A o \in Run(DB, rq) :
        /\ personas[rq.pid].handle # rq.handle /\ HeldByAnother(rq)
               => o.rq.status = 409 /\ o.db = DB
        /\ personas[rq.pid].handle = rq.handle
               => /\ o.rq.status = 200
                  /\ o.db = [DB EXCEPT !.personas[rq.pid].name = rq.name]

\* with two personas stored, an update to the other persona's handle is
\* answered 409 and an update that keeps the handle and changes the name is
\* answered 200
C13_Witness ==
    /\ \E rq \in CheckedUpdates :
           /\ personas[rq.pid].handle # rq.handle
           /\ HeldByAnother(rq)
           /\ \E o \in Run(DB, rq) : o.rq.status = 409
    /\ \E rq \in CheckedUpdates :
           /\ personas[rq.pid].handle = rq.handle
           /\ personas[rq.pid].name # rq.name
           /\ DOMAIN personas # {rq.pid}
           /\ \E o \in Run(DB, rq) : o.rq.status = 200

\* C14: an update request changes a persona only when the account logged in
\* on the requesting session owns that persona.
C14_UpdateByOwnerOnly ==
    \A rq \in UpdateRequests : \A o \in Run(DB, rq) :
        o.db.personas # personas =>
            /\ rq.pid \in DOMAIN personas
            /\ personas[rq.pid].user = session[rq.sess].userId

ListingRequests ==
    GetFollowingRequests \cup GetFollowersRequests \cup GetFollowsRequests

\* the place of a Follow record in the order of creation
CreationRank(f) == CHOOSE k \in 1..Len(follows) : follows[k] = f

NewestFirst(list) ==
    \A i, j \in 1..Len(list) :
        i < j => CreationRank(list[i]) > CreationRank(list[j])

\* C15: in every following list and followers list that a listing request
\* returns, a Follow created later comes before a Follow created earlier.
C15_ListsNewestFirst ==
    \A rq \in ListingRequests : \A o \in Run(DB, rq) :
        o.rq.status = 200 =>
            NewestFirst(o.rq.following) /\ NewestFirst(o.rq.followers)

\* C16: an unfollow request of a logged-in session with active persona a
\* that names an existing persona b in the query, when no edge (a, b) is
\* stored, is answered 404 and changes no Follow record, whatever the body
\* of the request carries.
C16_UnfollowWithoutEdge ==
    \A rq \in UnfollowRequests :
        /\ isUserLoggedIn(DB, rq) = 0
        /\ session[rq.sess].personaId # NoId
        /\ rq.pid \in DOMAIN personas
        /\ ~HasEdge(follows, session[rq.sess].personaId, rq.pid)
        => \A o \in Run(DB, rq) : o.rq.status = 404 /\ o.db.follows = follows

\* the persona whose Follows a listing request asks for
ListedPersona(rq) ==
    IF rq.op = "follows" /\ rq.pid # NoId THEN rq.pid
    ELSE session[rq.sess].personaId

\* list holds each stored Follow that has p in the given party, once, and
\* nothing else
ExactlyTheFollows(list, p, following) ==
    LET stored == {k \in 1..Len(follows) :
                      IF following THEN follows[k].followerId = p
                      ELSE follows[k].followingId = p}
    IN  /\ Len(list) = Cardinality(stored)
        /\ {list[i] : i \in 1..Len(list)} = {follows[k] : k \in stored}

\* C17: served alone, the following list that a listing request returns
\* holds exactly the stored Follow records whose follower is the listed
\* persona, and the followers list exactly those whose followee it is.
C17_ListsMatchStore ==
    \A rq \in ListingRequests : \A o \in Run(DB, rq) :
        o.rq.status = 200 =>
            /\ rq.op \in {"following", "follows"} =>
                   ExactlyTheFollows(o.rq.following, ListedPersona(rq), TRUE)
            /\ rq.op \in {"followers", "follows"} =>
                   ExactlyTheFollows(o.rq.followers, ListedPersona(rq), FALSE)

\* persona a follows another persona b and b follows a; the followers list
\* of b holds the one edge from a, and the listing of a by query holds one
\* edge in each list
C17_Witness ==
    \E a, b \in DOMAIN personas :
        /\ a # b
        /\ follows = <<[followerId |-> a, followingId |-> b],
                       [followerId |-> b, followingId |-> a]>>
        /\ \E rq \in GetFollowersRequests : \E o \in Run(DB, rq) :
               /\ session[rq.sess].personaId = b
               /\ o.rq.status = 200
               /\ o.rq.followers = <<[followerId |-> a, followingId |-> b]>>
        /\ \E rq \in GetFollowsRequests : \E o \in Run(DB, rq) :
               /\ rq.pid = a
               /\ o.rq.status = 200
               /\ Len(o.rq.following) = 1 /\ Len(o.rq.followers) = 1

\* the create requests that carry a handle and pass the login and format
\* checks
CheckedCreates ==
    {rq \in CreateRequests :
        /\ isUserLoggedIn(DB, rq) = 0
        /\ isValidName(DB, rq) = 0
        /\ rq.handle # Undefined
        /\ isValidHandle(DB, rq) = 0}

\* C18: served alone, a create request that passes the login and format
\* checks is answered 409 and adds nothing when a persona has exactly its
\* handle, and is answered 201 and adds a persona with its handle otherwise,
\* also when a persona has that handle in another letter case.
C18_HandleCaseSensitive ==
    \A rq \in CheckedCreates : \A o \in Run(DB, rq) :
        IF HandleHeld(rq.handle)
        THEN o.rq.status = 409 /\ o.db = DB
        ELSE /\ o.rq.status = 201
             /\ DOMAIN o.db.personas = DOMAIN personas \cup {nextPid}
             /\ o.db.personas[nextPid].handle = rq.handle
             /\ \A i \in DOMAIN personas : o.db.personas[i] = personas[i]

\* handle a is held and A is not: a create with A is answered 201 and a
\* create with a is answered 409
C18_Witness ==
    /\ HandleHeld(<<"a">>)
    /\ ~HandleHeld(<<"A">>)
    /\ \E rq \in CheckedCreates : \E o \in Run(DB, rq) :
           rq.handle = <<"A">> /\ o.rq.status = 201
    /\ \E rq \in CheckedCreates : \E o \in Run(DB, rq) :
           rq.handle = <<"a">> /\ o.rq.status = 409

\* the create, update and sign-in requests of logged-in sessions whose
\* handle is missing, empty, or has a character that is no letter, digit or
\* underscore
MalformedHandleRequests ==
    {rq \in CreateRequests \cup UpdateRequests \cup SignInRequests :
        /\ isUserLoggedIn(DB, rq) = 0
        /\ \/ rq.handle = Undefined
           \/ rq.handle = <<>>
           \/ \E i \in 1..Len(rq.handle) : rq.handle[i] \notin WordChars}

\* C19: a create, update or sign-in request with a malformed handle is
\* answered 400 before any middleware has read the document store, and
\* changes nothing.
C19_MalformedHandleRejected ==
    \A rq \in MalformedHandleRequests : \A o \in Run(DB, rq) :
        o.rq.status = 400 /\ ~o.rq.accessed /\ o.db = DB

\* every request the interface accepts
AnyRequests ==
    SignInRequests \cup CreateRequests \cup UpdateRequests \cup DeleteRequests
        \cup FollowRequests \cup UnfollowRequests \cup DeleteAccountRequests
        \cup GetFollowingRequests \cup GetFollowersRequests
        \cup GetFollowsRequests

\* C20: no request changes the owner of a stored persona, and a persona
\* keeps its identifier: every update request leaves the set of stored
\* identifiers as it was, and changes nothing but the name and the handle
\* of the persona it names (no other persona, no Follow record, no
\* session).
C20_OwnerAndIdImmutable ==
    /\ \A rq \in AnyRequests : \A o \in Run(DB, rq) :
           \A i \in DOMAIN personas \cap DOMAIN o.db.personas :
               o.db.personas[i].user = personas[i].user
    /\ \A rq \in UpdateRequests : \A o \in Run(DB, rq) :
           /\ DOMAIN o.db.personas = DOMAIN personas
           /\ \A i \in DOMAIN personas \ {rq.pid} :
                  o.db.personas[i] = personas[i]
           /\ o.db.nextPid = nextPid
           /\ o.db.follows = follows
           /\ o.db.session = session

\* an update answered 200 gives a persona of another owner than the
\* request's session a new name and a new handle, and the persona keeps its
\* owner and its identifier
C20_Witness ==
    \E rq \in UpdateRequests : \E o \in Run(DB, rq) :
        /\ o.rq.status = 200
        /\ rq.pid \in DOMAIN personas \cap DOMAIN o.db.personas
        /\ o.db.personas[rq.pid].name # personas[rq.pid].name
        /\ o.db.personas[rq.pid].handle # personas[rq.pid].handle
        /\ o.db.personas[rq.pid].user = personas[rq.pid].user
        /\ session[rq.sess].userId # personas[rq.pid].user

\* the follow requests of a logged-in session for its own active persona,
\* which exists
SelfFollows ==
    {rq \in FollowRequests :
        rq \in FollowsBy(session[rq.sess].personaId, session[rq.sess].personaId)}

\* C21: a follow request that names the session's own active persona a,
\* while the edge (a, a) is not stored, is answered 201 and appends exactly
\* the edge (a, a).
C21_SelfFollowAccepted ==
    \A rq \in SelfFollows :
        ~HasEdge(follows, rq.bpid, rq.bpid) =>
            \A o \in Run(DB, rq) :
                /\ o.rq.status = 201
                /\ o.db.follows =
                       Append(follows, [followerId |-> rq.bpid, followingId |-> rq.bpid])
                /\ o.db.personas = personas

\* a self-follow is answered 201 and the edge (a, a) is stored after it
C21_Witness ==
    \E rq \in SelfFollows : \E o \in Run(DB, rq) :
        /\ ~HasEdge(follows, rq.bpid, rq.bpid)
        /\ o.rq.status = 201
        /\ HasEdge(o.db.follows, rq.bpid, rq.bpid)

\* C22: after a create request is answered 201, the persona it created is
\* the active persona of the requesting session.
C22_CreateSetsActivePersona ==
    \A rq \in CreateRequests : \A o \in Run(DB, rq) :
        o.rq.status = 201 =>
            /\ nextPid \in DOMAIN o.db.personas
            /\ o.db.session[rq.sess].personaId = nextPid

\* C23: the persona that a create request stores is owned by the account
\* logged in on the requesting session.
C23_CreatedForSessionAccount ==
    \A rq \in CreateRequests : \A o \in Run(DB, rq) :
        \A i \in DOMAIN o.db.personas \ DOMAIN personas :
            o.db.personas[i].user = session[rq.sess].userId

\* the Follow records of the current store that the store fs no longer has
RemovedFollows(fs) ==
    {k \in 1..Len(follows) :
        ~HasEdge(fs, follows[k].followerId, follows[k].followingId)}

\* persona p is stored and owned by the account of session s
OwnedBySession(p, s) ==
    p \in DOMAIN personas /\ personas[p].user = session[s].userId

FollowRequestsWithQuery ==
    {[rq EXCEPT !.pid = p] : rq \in FollowRequests, p \in PidInputs}

\* C25: a follow request adds no Follow record or exactly one, whose
\* follower is the active persona of the requesting session and whose
\* followee is the persona named in the request body, whatever persona id
\* the request carries elsewhere; no other request adds a Follow record.
C25_FollowerIsActivePersona ==
    /\ \A rq \in FollowRequestsWithQuery : \A o \in Run(DB, rq) :
           \/ o.db.follows = follows
           \/ /\ session[rq.sess].personaId # NoId
              /\ o.db.follows =
                     Append(follows, [followerId |-> session[rq.sess].personaId,
                                      followingId |-> rq.bpid])
    /\ \A rq \in AnyRequests \ FollowRequests : \A o \in Run(DB, rq) :
           Len(o.db.follows) <= Len(follows)

\* a follow request that carries the id of another persona in its query is
\* answered 201 and stores a Follow whose follower is the active persona
C25_Witness ==
    \E rq \in FollowRequestsWithQuery : \E o \in Run(DB, rq) :
        /\ rq.pid \in DOMAIN personas
        /\ rq.pid # session[rq.sess].personaId
        /\ o.rq.status = 201
        /\ Len(o.db.follows) = Len(follows) + 1
        /\ o.db.follows[Len(o.db.follows)].followerId = session[rq.sess].personaId
        /\ o.db.follows[Len(o.db.follows)].followingId = rq.bpid

\* C26: a follow, unfollow or follow-listing request of a session that has
\* no active persona is answered 403 and changes nothing.
C26_NoActivePersonaRejected ==
    \A rq \in ActivePersonaRequests :
        session[rq.sess].personaId = NoId =>
            \A o \in Run(DB, rq) : o.rq.status = 403 /\ o.db = DB

\* a logged-in session without active persona asks to follow an existing
\* persona, to unfollow the follower of a stored Follow, and for a listing,
\* and each is answered 403
C26_Witness ==
    \E s \in Sessions :
        /\ session[s].userId # None
        /\ session[s].personaId = NoId
        /\ follows # <<>>
        /\ \E rq \in FollowRequests : \E o \in Run(DB, rq) :
               rq.sess = s /\ rq.bpid \in DOMAIN personas /\ o.rq.status = 403
        /\ \E rq \in UnfollowRequests : \E o \in Run(DB, rq) :
               /\ rq.sess = s
               /\ HasEdge(follows, rq.bpid, rq.pid)
               /\ o.rq.status = 403
        /\ \E rq \in GetFollowsRequests : \E o \in Run(DB, rq) :
               rq.sess = s /\ o.rq.status = 403

\* C27: a delete request removes a persona only when the account logged in
\* on the requesting session owns that persona.
C27_DeleteByOwnerOnly ==
    \A rq \in DeleteRequests : \A o \in Run(DB, rq) :
        \A i \in DOMAIN personas \ DOMAIN o.db.personas :
            personas[i].user = session[rq.sess].userId

\* how many times the record f is stored in fs
CountOf(fs, f) == Cardinality({k \in 1..Len(fs) : fs[k] = f})

\* C28: FollowCollection.deleteMany(p), applied to any reachable store,
\* leaves no Follow whose follower is p, keeps every other Follow (those
\* whose followee is p included) and changes no persona and no session.
C28_DeleteManyFrame ==
    \A p \in 1..MaxPersonas :
        LET after == FollowCollection_deleteMany(DB, p)
        IN  /\ \A k \in 1..Len(after.follows) : after.follows[k].followerId # p
            /\ \A k \in 1..Len(follows) :
                   follows[k].followerId # p =>
                       CountOf(after.follows, follows[k]) = CountOf(follows, follows[k])
            /\ Len(after.follows) =
                   Cardinality({k \in 1..Len(follows) : follows[k].followerId # p})
            /\ after.personas = personas
            /\ after.nextPid = nextPid
            /\ after.session = session

\* persona p follows and is followed by another persona; deleteMany(p)
\* removes the first Follow and keeps the second
C28_Witness ==
    \E p \in 1..MaxPersonas :
        /\ \E k \in 1..Len(follows) : follows[k].followerId = p
        /\ \E k \in 1..Len(follows) :
               /\ follows[k].followingId = p
               /\ follows[k].followerId # p
               /\ FollowCollection_deleteMany(DB, p).follows = <<follows[k]>>

\* ids of personas and Follows, stored or not
AnyPersonaIds == 1..(MaxPersonas + 1)
AnyFollowIds == 1..(MaxFollows + 1)

\* C29: the store-level deletes are idempotent.  PersonaCollection.deleteOne,
\* FollowModel.deleteOne and FollowCollection.deleteMany, applied to an id
\* that no stored record has, leave the store as it is, and applied twice
\* with the same id leave the store as after the first application.
C29_DeletesIdempotent ==
    /\ \A i \in AnyPersonaIds :
           LET once == PersonaCollection_deleteOne(DB, i)
           IN  /\ PersonaCollection_deleteOne(once, i) = once
               /\ i \notin DOMAIN personas => once = DB
    /\ \A f \in AnyFollowIds :
           LET once == FollowModel_deleteOne(FollowDocs(follows), f)
           IN  /\ FollowModel_deleteOne(once, f) = once
               /\ f \notin 1..Len(follows) => once = FollowDocs(follows)
    /\ \A p \in AnyPersonaIds :
           LET once == FollowCollection_deleteMany(DB, p)
           IN  /\ FollowCollection_deleteMany(once, p) = once
               /\ (\A k \in 1..Len(follows) : follows[k].followerId # p)
                      => once = DB

\* a store with two Follows and two personas, where each delete removes a
\* record the first time: the first Follow, a persona, the Follows of a persona
C29_Witness ==
    /\ Len(follows) = 2
    /\ Len(FollowModel_deleteOne(FollowDocs(follows), 1)) = 1
    /\ Len(FollowModel_deleteOne(
               FollowModel_deleteOne(FollowDocs(follows), 1), 1)) = 1
    /\ \E i \in DOMAIN personas :
           /\ PersonaCollection_deleteOne(DB, i) # DB
           /\ FollowCollection_deleteMany(DB, i) # DB

\* names of one to seven groups, with single and with doubled spaces
NameSamples ==
    {<<"A">>, <<"A", "l">>, <<"A", "_", "1">>, <<"A", " ", "l">>,
     <<"A", " ", " ", "l">>, <<" ", "A", "l">>, <<"A", "l", " ">>,
     <<"A", " ", "A", " ", "A", " ", "A", " ", "A", " ", "A">>,
     <<"A", " ", "A", " ", "A", " ", "A", " ", "A", " ", "A", " ", "A">>}

\* s consists of one to six nonempty groups of letters, digits or
\* underscores, separated by single spaces
SixGroups(s) ==
    /\ s # <<>>
    /\ \A k \in 1..Len(s) : s[k] = " " \/ IsWordChar(s[k])
    /\ s[1] # " " /\ s[Len(s)] # " "
    /\ \A k \in 1..(Len(s) - 1) : ~(s[k] = " " /\ s[k + 1] = " ")
    /\ Cardinality({k \in 1..Len(s) : s[k] = " "}) <= 5

\* C30: isValidName lets a create request through exactly when its name
\* consists of one to six nonempty groups of letters, digits or underscores
\* separated by single spaces, and answers 400 otherwise.
C30_NameFormat ==
    \A s \in Sessions : \A n \in NameSamples :
        isValidName(DB, NewRequest("create", s, session[s].userId, <<"a">>, n,
                                   NoId, NoId))
            = IF SixGroups(n) THEN 0 ELSE 400

\* arguments of the handle lookup as its callers pass them on: handles, a
\* handle followed by a space, and a dot
LookupInputs == {<<"a">>, <<"A">>, <<"a", " ">>, <<".">>}

\* C31: for every argument string h, findOneByHandle(h) yields only personas
\* whose handle is exactly h.
C31_LookupIsExact ==
    \A h \in LookupInputs :
        \A i \in PersonaCollection_findOneByHandle(DB, h) :
            personas[i].handle = h

\* C32: PersonaCollection.deleteOne and FollowCollection.deleteOne return
\* true exactly when a record with the given id is stored (and is removed
\* by the call), and false when there is none.
C32_DeleteOneReportsRemoval ==
    /\ \A i \in AnyPersonaIds :
           PersonaCollection_deleteOneReturns(DB, i) <=> i \in DOMAIN personas
    /\ \A f \in AnyFollowIds :
           FollowCollection_deleteOneReturns(DB, f) <=> f \in 1..Len(follows)

============================================================================
